---- MODULE Spec2Model ----
(***************************************************************************)
(* The WASAPI stream engine of cpal (src/host/wasapi/stream.rs): a Stream  *)
(* handle that pushes commands into an mpsc channel and signals an         *)
(* auto-reset event, and the background thread run_inner that drains the   *)
(* channel, waits on {pending_scheduled_event, stream.event} and services  *)
(* the render or capture client.                                           *)
(*                                                                         *)
(* Two processes are modelled, each with a program counter:                *)
(*   hpc  the caller thread that owns the Stream handle                    *)
(*   lpc  the thread spawned by Stream::new, running run_inner             *)
(* A step is one channel operation, one OS call or one callback, so that   *)
(* every interleaving of the two threads is explored.  The device (WASAPI) *)
(* is the environment: the status and the out-parameters of every native   *)
(* call are chosen with \E, and device_ready signals stream.event.         *)
(***************************************************************************)
EXTENDS Integers, Sequences, FiniteSets, TLC

\* ------------------------------------------------------------------ bounds
\* Number of play()/pause() calls the caller makes before dropping the handle.
MaxCmds == 2
\* max_frames_in_buffer of the opened session.
MaxFrames == 2
\* Packets the capture client reports pending during one dispatch.
MaxPackets == 2
\* Status codes -MaxCode..MaxCode, and as far around AUDCLNT_E_DEVICE_INVALIDATED,
\* are handed to stream_error_from_hresult; a padding of up to
\* max_frames_in_buffer + MaxCode is handed to get_available_frames.
MaxCode == 2

\* --------------------------------------------------------------- constants
S_OK == 0
\* AUDCLNT_SUCCESS(0x001) = 0x08890001
AUDCLNT_S_BUFFER_EMPTY == 143196161
\* AUDCLNT_ERR(0x004) = 0x88890004 as a signed 32-bit HRESULT
AUDCLNT_E_DEVICE_INVALIDATED == -2004287484
\* E_FAIL = 0x80004005: a failure that is not "device invalidated"
E_FAIL == -2147467259
\* winbase::WAIT_FAILED = 0xFFFFFFFF, read as a signed 32-bit value
WAIT_FAILED == -1

\* enum Command
Command == {"PlayStream", "PauseStream", "Terminate"}
\* enum AudioClientFlow
AudioClientFlow == {"Render", "Capture"}
\* enum SampleFormat
SampleFormat == {"F32", "I16", "U16"}
\* Channel counts of the sessions explored (mono, stereo)
Channels == {1, 2}

\* Paddings GetCurrentPadding may report: up to max_frames_in_buffer, and one
\* beyond it
Paddings == 0..(MaxFrames + 1)

\* Statuses a native call may return
CallResults == {S_OK, AUDCLNT_E_DEVICE_INVALIDATED, E_FAIL}
\* IAudioCaptureClient::GetBuffer may also report the "buffer empty" success
CaptureGetBufferResults == CallResults \cup {AUDCLNT_S_BUFFER_EMPTY}

\* The native calls made on the audio client and its render/capture client
DeviceOps == {"Start", "Stop", "GetCurrentPadding", "GetNextPacketSize",
              "GetBuffer", "ReleaseBuffer"}

VARIABLES
    \* ---- Stream (the handle) and its caller thread
    hpc,              \* position of the caller thread
    hcmd,             \* the command push_command is sending
    issued,           \* number of play()/pause() calls made
    dropLog,          \* the steps Drop for Stream has performed
    \* ---- shared between the two threads
    queue,            \* the mpsc channel: commands sent and not yet received
    rxAlive,          \* the Receiver (RunContext.commands) is not yet dropped
    wake,             \* pending_scheduled_event is signalled
    wakeClosed,       \* pending_scheduled_event has been closed
    \* ---- RunContext / StreamInner (owned by the background thread)
    lpc,              \* position of run_inner
    playing,          \* StreamInner.playing
    client_flow,      \* StreamInner.client_flow
    sample_format,    \* StreamInner.sample_format
    bytes_per_frame,  \* StreamInner.bytes_per_frame
    devEvent,         \* StreamInner.event is signalled
    frames_available, \* local of run_inner
    buffer_len,       \* local of run_inner
    err,              \* the StreamError on its way to error_callback
    thread_panicked,  \* run_inner panicked: the thread unwinds, join() is Err
    debug_assertions, \* the build keeps debug_assert! (-C debug-assertions)
    \* ---- observations
    packets,          \* packets the capture client reported in this dispatch
    dev,              \* the wait, native calls and callbacks of the current
                      \* iteration (of the current packet cycle, in a capture)
    errLog,           \* errors delivered to error_callback
    teardown,         \* releases performed while RunContext is dropped
    drained,          \* commands received by the current process_commands
    playing0,         \* playing when the current process_commands began
    waitsAfterTerm,   \* returns of the wait since Terminate was sent
    termSeen,         \* process_commands has received Terminate
    \* ---- the free functions called on their own
    call,             \* the arguments handed to the function
    ret               \* what the function returned

streamVars == <<hpc, hcmd, issued, dropLog, queue, rxAlive, wake, wakeClosed,
                lpc, playing, client_flow, sample_format, bytes_per_frame, devEvent,
                frames_available, buffer_len, err, thread_panicked,
                debug_assertions, packets, dev, errLog, teardown,
                drained, playing0, waitsAfterTerm, termSeen>>
callVars == <<call, ret>>
vars == <<streamVars, callVars>>

handleVars == <<hpc, hcmd, issued, dropLog>>
sessionVars == <<client_flow, sample_format, bytes_per_frame>>
buildVars == <<debug_assertions>>
\* The build checks integer overflow: -C overflow-checks, which takes the
\* value of -C debug-assertions when the profile does not set it (on in the
\* dev profile, off in the release profile)
overflow_checks == debug_assertions
loopLocals == <<frames_available, buffer_len, packets>>

\* ----------------------------------------------------------- pure helpers
\* SampleFormat::sample_size: bytes of one sample
sample_size(fmt) == IF fmt = "F32" THEN 4 ELSE 2

\* check_result: an HRESULT is a failure exactly when it is negative
check_result(hresult) == hresult >= 0

\* stream_error_from_hresult without the AUDCLNT_E_DEVICE_INVALIDATED test
stream_error_from_hresult_no_invalidated(hresult) ==
    IF ~check_result(hresult) THEN "BackendSpecificError" ELSE "Ok"

\* stream_error_from_hresult: "Ok" or the StreamError kind
stream_error_from_hresult(hresult) ==
    IF hresult = AUDCLNT_E_DEVICE_INVALIDATED THEN "DeviceNotAvailable"
    ELSE IF ~check_result(hresult) THEN "BackendSpecificError"
    ELSE "Ok"

\* A u32 is written as its 32-bit pattern read as an i32 (`x as i32`), the
\* integers here being 32 bits wide: the patterns below zero are the values
\* from 2^31 up, -1 is 4294967295.  u32_le is `a <= b` on u32.
u32_le(a, b) == IF (a >= 0) = (b >= 0) THEN a <= b ELSE a >= 0

\* The four bytes of a u32, least significant first, and back
u32_to_bytes(x) ==
    <<x % 256, (x \div 256) % 256, (x \div 65536) % 256, (x \div 16777216) % 256>>
u32_from_bytes(b) ==
    (IF b[4] >= 128 THEN b[4] - 256 ELSE b[4]) * 16777216
        + b[3] * 65536 + b[2] * 256 + b[1]

\* a - b byte by byte with borrow; the borrow out of the last byte is dropped
RECURSIVE bytes_sub(_, _, _)
bytes_sub(a, b, borrow) ==
    IF a = <<>> THEN <<>>
    ELSE LET t == Head(a) - Head(b) - borrow IN
           <<t % 256>> \o bytes_sub(Tail(a), Tail(b), IF t < 0 THEN 1 ELSE 0)

\* a * m byte by byte with carry (m below 2^16); the carry out is dropped
RECURSIVE bytes_mul(_, _, _)
bytes_mul(a, m, carry) ==
    IF a = <<>> THEN <<>>
    ELSE LET t == Head(a) * m + carry IN
           <<t % 256>> \o bytes_mul(Tail(a), m, t \div 256)

\* a / d from the most significant byte down (d below 2^16)
RECURSIVE bytes_div(_, _, _)
bytes_div(a, d, rem) ==
    IF a = <<>> THEN <<>>
    ELSE LET t == rem * 256 + a[Len(a)] IN
           bytes_div(SubSeq(a, 1, Len(a) - 1), d, t % d) \o <<t \div d>>

\* `a - b` on u32: with overflow checks (debug profile) an underflow panics,
\* without them (release profile) the difference wraps modulo 2^32.
u32_sub(a, b, checks) ==
    IF ~u32_le(b, a) /\ checks
    THEN [panic |-> TRUE, value |-> 0]
    ELSE [panic |-> FALSE,
          value |-> u32_from_bytes(bytes_sub(u32_to_bytes(a), u32_to_bytes(b), 0))]

\* A usize (64 bits, the x86_64 targets) is written as its two 32-bit halves,
\* each a u32 as above: [hi |-> 1, lo |-> -2] is 8589934590.
usize_to_bytes(x) == u32_to_bytes(x.lo) \o u32_to_bytes(x.hi)
usize_from_bytes(b) ==
    [hi |-> u32_from_bytes(SubSeq(b, 5, 8)), lo |-> u32_from_bytes(SubSeq(b, 1, 4))]
\* `x as usize` of a u32
usize_from_u32(x) == [hi |-> 0, lo |-> x]
\* x * m and x / d on usize, m and d below 2^16
usize_mul(x, m) == usize_from_bytes(bytes_mul(usize_to_bytes(x), m, 0))
usize_div(x, d) == usize_from_bytes(bytes_div(usize_to_bytes(x), d, 0))

\* get_available_frames: the status of GetCurrentPadding, then max - padding
get_available_frames(max_frames_in_buffer, padding, hresult, checks) ==
    IF stream_error_from_hresult(hresult) # "Ok"
    THEN [ok |-> FALSE, panic |-> FALSE,
          err |-> stream_error_from_hresult(hresult), n |-> 0]
    ELSE LET d == u32_sub(max_frames_in_buffer, padding, checks) IN
           [ok |-> ~d.panic, panic |-> d.panic, err |-> "Ok", n |-> d.value]

\* buffer_len in bytes: the division by sample_size forgotten
buffer_len_in_bytes(frames, bpf, fmt) == usize_mul(usize_from_u32(frames), bpf)

\* buffer_len = frames_available as usize * bytes_per_frame as usize / sample_size
buffer_len_of(frames, bpf, fmt) ==
    usize_div(usize_mul(usize_from_u32(frames), bpf), sample_size(fmt))

\* One observed operation of the loop
Entry(op, n, hr) == [op |-> op, n |-> n, hr |-> hr]
\* The data callback, observed with the length of the slice it was handed
CallbackEntry(len) == [op |-> "data_callback", len |-> len]

\* Number of entries of log whose op is in ops
RECURSIVE CountOps(_, _)
CountOps(log, ops) ==
    IF log = <<>> THEN 0
    ELSE (IF Head(log).op \in ops THEN 1 ELSE 0) + CountOps(Tail(log), ops)

\* Number of occurrences of x in the sequence s
RECURSIVE Occurrences(_, _)
Occurrences(s, x) ==
    IF s = <<>> THEN 0
    ELSE (IF Head(s) = x THEN 1 ELSE 0) + Occurrences(Tail(s), x)

\* ------------------------------------------------------------------- Init
\* No free function is being called on its own
NoCall == [hresult |-> S_OK, max_frames_in_buffer |-> 0, padding |-> 0]
NoRet == [fn |-> "none"]

\* Stream::new: the session as opened, the thread spawned, nothing sent yet
StreamInit ==
    /\ hpc = "idle"
    /\ hcmd = "none"
    /\ issued = 0
    /\ dropLog = <<>>
    /\ queue = <<>>
    /\ rxAlive = TRUE
    /\ wake = FALSE
    /\ wakeClosed = FALSE
    /\ lpc = "drain"
    /\ playing = FALSE
    /\ client_flow \in AudioClientFlow
    /\ sample_format \in SampleFormat
    /\ \E ch \in Channels : bytes_per_frame = ch * sample_size(sample_format)
    /\ devEvent = FALSE
    /\ frames_available = 0
    /\ buffer_len = usize_from_u32(0)
    /\ err = "none"
    /\ thread_panicked = FALSE
    /\ debug_assertions \in BOOLEAN
    /\ packets = 0
    /\ dev = <<>>
    /\ errLog = <<>>
    /\ teardown = <<>>
    /\ drained = <<>>
    /\ playing0 = FALSE
    /\ waitsAfterTerm = 0
    /\ termSeen = FALSE

Init ==
    /\ StreamInit
    /\ call = NoCall
    /\ ret = NoRet

\* ------------------------------------------- the free functions on their own
\* HRESULTs handed to stream_error_from_hresult: the named ones, the codes
\* around zero and the codes around AUDCLNT_E_DEVICE_INVALIDATED
HResults ==
    CaptureGetBufferResults
        \cup (-MaxCode..MaxCode)
        \cup {AUDCLNT_E_DEVICE_INVALIDATED + d : d \in -MaxCode..MaxCode}

\* Arguments of a call: hresult and padding are what GetCurrentPadding gave,
\* max_frames_in_buffer is the field of the session
Calls ==
    [hresult : HResults,
     \* ... and 2^31 - 1
     max_frames_in_buffer : 0..MaxFrames \cup {2147483647},
     \* ... and 2^31, 2^32 - 1
     padding : 0..(MaxFrames + MaxCode) \cup {-2147483647 - 1, -1}]

PureInit ==
    /\ StreamInit
    /\ call \in Calls
    /\ ret = NoRet

\* stream_error_from_hresult(hresult)
call_stream_error_from_hresult ==
    /\ ret = NoRet
    /\ ret' = [fn |-> "stream_error_from_hresult",
               out |-> stream_error_from_hresult(call.hresult)]
    /\ UNCHANGED <<streamVars, call>>

\* get_available_frames(&stream), GetCurrentPadding having returned
\* call.hresult and call.padding
call_get_available_frames ==
    /\ ret = NoRet
    /\ ret' = [fn |-> "get_available_frames",
               out |-> get_available_frames(call.max_frames_in_buffer, call.padding,
                                            call.hresult, overflow_checks)]
    /\ UNCHANGED <<streamVars, call>>

PureNext == call_stream_error_from_hresult \/ call_get_available_frames

PureSpec == PureInit /\ [][PureNext]_vars

\* ------------------------------------------------- the Stream handle thread
\* Terminate has been sent into the channel
TermEnqueued ==
    /\ hcmd = "Terminate"
    /\ hpc \in {"signal", "assert_failed", "join", "join_failed", "close", "dropped"}
\* ... and SetEvent has signalled the event for it
TermSignalled ==
    hcmd = "Terminate" /\ hpc \in {"join", "join_failed", "close", "dropped"}
\* The caller thread is in a panic: of the unwrap of send ("panicked"), of
\* assert_ne!(result, 0) ("assert_failed"), of the unwrap of join
\* ("join_failed")
HandlePanics == {"panicked", "assert_failed", "join_failed"}
\* The caller holds the Stream and is in no call of it: it has made none, the
\* last one returned, or the last play()/pause() panicked (the Stream is as
\* the panic left it).  A panic of drop leaves no Stream behind.
CallerAtRest == hpc = "idle" \/ (hpc \in HandlePanics /\ hcmd # "Terminate")

\* push_command, first half: self.commands.send(command).unwrap().
\* send fails once the Receiver is dropped, and the unwrap then panics.
push_command_send(command) ==
    /\ hcmd' = command
    /\ IF rxAlive
       THEN /\ queue' = Append(queue, command)
            /\ hpc' = "signal"
            /\ dropLog' = IF command = "Terminate" THEN <<"send">> ELSE dropLog
       ELSE /\ queue' = queue
            /\ hpc' = "panicked"
            /\ dropLog' = dropLog
    /\ UNCHANGED <<rxAlive, wake, wakeClosed, lpc, playing, sessionVars,
                   buildVars, thread_panicked, callVars, devEvent,
                   loopLocals, err, dev, errLog, teardown, drained, playing0,
                   waitsAfterTerm, termSeen>>

\* StreamTrait::play
play ==
    /\ CallerAtRest
    /\ issued < MaxCmds
    /\ issued' = issued + 1
    /\ push_command_send("PlayStream")

\* StreamTrait::pause
pause ==
    /\ CallerAtRest
    /\ issued < MaxCmds
    /\ issued' = issued + 1
    /\ push_command_send("PauseStream")

\* Drop for Stream, first statement: self.push_command(Command::Terminate)
\* The handle is dropped by its owner, or by the unwinding (or after the
\* catching) of a panic of play()/pause()
drop_stream ==
    /\ CallerAtRest
    /\ issued' = issued
    /\ push_command_send("Terminate")

\* push_command that sends the command and forgets to signal the event
push_command_signal_lost ==
    /\ hpc = "signal"
    /\ wake' = wake
    /\ hpc' = IF hcmd = "Terminate" THEN "join" ELSE "idle"
    /\ dropLog' = IF hcmd = "Terminate" THEN Append(dropLog, "signal") ELSE dropLog
    /\ UNCHANGED <<hcmd, issued, queue, rxAlive, wakeClosed, lpc, playing,
                   sessionVars, buildVars, thread_panicked, callVars,
                   devEvent, loopLocals, err, dev, errLog, teardown, drained,
                   playing0, waitsAfterTerm, termSeen>>

\* push_command, second half: SetEvent(self.pending_scheduled_event); the call
\* returns to play()/pause() (Ok(())) or to drop (which goes on to join).
push_command_signal ==
    /\ hpc = "signal"
    /\ wake' = TRUE
    /\ hpc' = IF hcmd = "Terminate" THEN "join" ELSE "idle"
    /\ dropLog' = IF hcmd = "Terminate" THEN Append(dropLog, "signal") ELSE dropLog
    /\ UNCHANGED <<hcmd, issued, queue, rxAlive, wakeClosed, lpc, playing,
                   sessionVars, buildVars, thread_panicked, callVars,
                   devEvent, loopLocals, err, dev, errLog, teardown, drained,
                   playing0, waitsAfterTerm, termSeen>>

\* push_command, second half: SetEvent returns 0 and assert_ne!(result, 0)
\* panics; the command stays in the channel, the event is not signalled
push_command_signal_failed ==
    /\ hpc = "signal"
    /\ hpc' = "assert_failed"
    /\ UNCHANGED <<hcmd, issued, dropLog, queue, rxAlive, wake, wakeClosed, lpc,
                   playing, sessionVars, buildVars, thread_panicked,
                   callVars, devEvent, loopLocals, err, dev, errLog, teardown,
                   drained, playing0, waitsAfterTerm, termSeen>>

\* Drop for Stream that lets go of the JoinHandle without joining the thread
drop_join_detached ==
    /\ hpc = "join"
    /\ hpc' = "close"
    /\ dropLog' = Append(dropLog, "join")
    /\ UNCHANGED <<hcmd, issued, queue, rxAlive, wake, wakeClosed, lpc, playing,
                   sessionVars, buildVars, thread_panicked, callVars,
                   devEvent, loopLocals, err, dev, errLog, teardown, drained,
                   playing0, waitsAfterTerm, termSeen>>

\* Drop for Stream: self.thread.take().unwrap().join().unwrap()
\* join() returns once the thread has ended: Err when it panicked, and then
\* the unwrap panics
drop_join ==
    /\ hpc = "join"
    /\ lpc = "done"
    /\ hpc' = IF thread_panicked THEN "join_failed" ELSE "close"
    /\ dropLog' = Append(dropLog, "join")
    /\ UNCHANGED <<hcmd, issued, queue, rxAlive, wake, wakeClosed, lpc, playing,
                   sessionVars, buildVars, thread_panicked, callVars,
                   devEvent, loopLocals, err, dev, errLog, teardown, drained,
                   playing0, waitsAfterTerm, termSeen>>

\* Drop for Stream: CloseHandle(self.pending_scheduled_event)
drop_close ==
    /\ hpc = "close"
    /\ hpc' = "dropped"
    /\ wakeClosed' = TRUE
    /\ dropLog' = Append(dropLog, "close")
    /\ UNCHANGED <<hcmd, issued, queue, rxAlive, wake, lpc, playing,
                   sessionVars, buildVars, thread_panicked, callVars,
                   devEvent, loopLocals, err, dev, errLog, teardown, drained,
                   playing0, waitsAfterTerm, termSeen>>

\* ---------------------------------------------------------------- device
\* stream.event is signalled: by WASAPI when the device wants data, or by
\* whoever else holds the handle; the loop does not look at playing
device_ready ==
    /\ teardown = <<>>
    /\ ~devEvent
    /\ devEvent' = TRUE
    /\ UNCHANGED <<handleVars, queue, rxAlive, wake, wakeClosed, lpc, playing,
                   sessionVars, buildVars, thread_panicked, callVars,
                   loopLocals, err, dev, errLog, teardown, drained, playing0,
                   waitsAfterTerm, termSeen>>

\* ------------------------------------------------------------- run_inner
\* Where a failed native call or wait leads: error_callback(err); break
Fail(e) ==
    /\ err' = e
    /\ lpc' = "error_cb"

\* process_commands that stops the stream when it receives Terminate
apply_command_stop_on_terminate(command, isPlaying, hresult) ==
    CASE command = "PlayStream" ->
           IF ~isPlaying
           THEN IF stream_error_from_hresult(hresult) # "Ok"
                THEN [call |-> "Start", playing |-> isPlaying, next |-> "err",
                      err |-> stream_error_from_hresult(hresult)]
                ELSE [call |-> "Start", playing |-> TRUE, next |-> "loop", err |-> "none"]
           ELSE [call |-> "none", playing |-> isPlaying, next |-> "loop", err |-> "none"]
      [] command = "PauseStream" ->
           IF isPlaying
           THEN IF stream_error_from_hresult(hresult) # "Ok"
                THEN [call |-> "Stop", playing |-> isPlaying, next |-> "err",
                      err |-> stream_error_from_hresult(hresult)]
                ELSE [call |-> "Stop", playing |-> FALSE, next |-> "loop", err |-> "none"]
           ELSE [call |-> "none", playing |-> isPlaying, next |-> "loop", err |-> "none"]
      [] command = "Terminate" ->
           [call |-> "Stop", playing |-> FALSE, next |-> "break", err |-> "none"]

\* process_commands without the `if !playing` / `if playing` tests
apply_command_unguarded(command, isPlaying, hresult) ==
    CASE command = "PlayStream" ->
           IF stream_error_from_hresult(hresult) # "Ok"
           THEN [call |-> "Start", playing |-> isPlaying, next |-> "err",
                 err |-> stream_error_from_hresult(hresult)]
           ELSE [call |-> "Start", playing |-> TRUE, next |-> "loop", err |-> "none"]
      [] command = "PauseStream" ->
           IF stream_error_from_hresult(hresult) # "Ok"
           THEN [call |-> "Stop", playing |-> isPlaying, next |-> "err",
                 err |-> stream_error_from_hresult(hresult)]
           ELSE [call |-> "Stop", playing |-> FALSE, next |-> "loop", err |-> "none"]
      [] command = "Terminate" ->
           [call |-> "none", playing |-> isPlaying, next |-> "break", err |-> "none"]

\* process_commands that sets playing before it looks at the status of Start
apply_command_playing_before_status(command, isPlaying, hresult) ==
    CASE command = "PlayStream" ->
           IF ~isPlaying
           THEN IF stream_error_from_hresult(hresult) # "Ok"
                THEN [call |-> "Start", playing |-> TRUE, next |-> "err",
                      err |-> stream_error_from_hresult(hresult)]
                ELSE [call |-> "Start", playing |-> TRUE, next |-> "loop", err |-> "none"]
           ELSE [call |-> "none", playing |-> isPlaying, next |-> "loop", err |-> "none"]
      [] command = "PauseStream" ->
           IF isPlaying
           THEN IF stream_error_from_hresult(hresult) # "Ok"
                THEN [call |-> "Stop", playing |-> isPlaying, next |-> "err",
                      err |-> stream_error_from_hresult(hresult)]
                ELSE [call |-> "Stop", playing |-> FALSE, next |-> "loop", err |-> "none"]
           ELSE [call |-> "none", playing |-> isPlaying, next |-> "loop", err |-> "none"]
      [] command = "Terminate" ->
           [call |-> "none", playing |-> isPlaying, next |-> "break", err |-> "none"]

\* One command of process_commands: the native call it makes (if any), the
\* value of playing afterwards and how process_commands goes on.
apply_command(command, isPlaying, hresult) ==
    CASE command = "PlayStream" ->
           IF ~isPlaying
           THEN IF stream_error_from_hresult(hresult) # "Ok"
                THEN [call |-> "Start", playing |-> isPlaying, next |-> "err",
                      err |-> stream_error_from_hresult(hresult)]
                ELSE [call |-> "Start", playing |-> TRUE, next |-> "loop", err |-> "none"]
           ELSE [call |-> "none", playing |-> isPlaying, next |-> "loop", err |-> "none"]
      [] command = "PauseStream" ->
           IF isPlaying
           THEN IF stream_error_from_hresult(hresult) # "Ok"
                THEN [call |-> "Stop", playing |-> isPlaying, next |-> "err",
                      err |-> stream_error_from_hresult(hresult)]
                ELSE [call |-> "Stop", playing |-> FALSE, next |-> "loop", err |-> "none"]
           ELSE [call |-> "none", playing |-> isPlaying, next |-> "loop", err |-> "none"]
      [] command = "Terminate" ->
           [call |-> "none", playing |-> isPlaying, next |-> "break", err |-> "none"]

\* process_commands that receives one command with try_recv() instead of
\* iterating try_iter(): it returns Ok(true) after the first command
process_command_once ==
    /\ lpc = "drain"
    /\ queue # <<>>
    /\ queue' = Tail(queue)
    /\ \E hresult \in CallResults :
         LET r == apply_command(Head(queue), playing, hresult) IN
           /\ (r.call = "none" => hresult = S_OK)
           /\ playing' = r.playing
           /\ playing0' = r.playing
           /\ CASE r.next = "loop" ->
                     lpc' = "wait" /\ err' = err /\ dev' = <<>> /\ drained' = <<>>
                [] r.next = "break" ->
                     /\ lpc' = "drop_stream" /\ err' = err /\ dev' = dev
                     /\ drained' = Append(drained, Head(queue))
                [] r.next = "err" ->
                     /\ Fail(r.err)
                     /\ dev' = Append(dev, Entry(r.call, 0, hresult))
                     /\ drained' = Append(drained, Head(queue))
    /\ termSeen' = (termSeen \/ Head(queue) = "Terminate")
    /\ UNCHANGED <<handleVars, rxAlive, wake, wakeClosed, sessionVars,
                   buildVars, thread_panicked, callVars, devEvent,
                   loopLocals, errLog, teardown, waitsAfterTerm>>

\* process_commands: try_iter() yields the next queued command
process_command ==
    /\ lpc = "drain"
    /\ queue # <<>>
    /\ queue' = Tail(queue)
    /\ drained' = Append(drained, Head(queue))
    /\ \E hresult \in CallResults :
         LET r == apply_command(Head(queue), playing, hresult) IN
           \* a command that makes no native call has one outcome only
           /\ (r.call = "none" => hresult = S_OK)
           /\ playing' = r.playing
           /\ dev' = IF r.call = "none" THEN dev
                     ELSE Append(dev, Entry(r.call, 0, hresult))
           /\ CASE r.next = "loop" -> lpc' = "drain" /\ err' = err
                [] r.next = "break" -> lpc' = "drop_stream" /\ err' = err
                [] r.next = "err" -> Fail(r.err)
    /\ termSeen' = (termSeen \/ Head(queue) = "Terminate")
    /\ UNCHANGED <<handleVars, rxAlive, wake, wakeClosed, sessionVars,
                   buildVars, thread_panicked, callVars, devEvent,
                   loopLocals, errLog, teardown, playing0, waitsAfterTerm>>

\* process_commands: try_iter() finds the channel empty, Ok(true); run_inner
\* goes on to wait_for_handle_signal.
process_commands_done ==
    /\ lpc = "drain"
    /\ queue = <<>>
    /\ lpc' = "wait"
    /\ dev' = <<>>
    /\ drained' = <<>>
    /\ playing0' = playing
    /\ UNCHANGED <<handleVars, queue, rxAlive, wake, wakeClosed, playing,
                   sessionVars, buildVars, thread_panicked, callVars,
                   devEvent, loopLocals, err, errLog, teardown, waitsAfterTerm,
                   termSeen>>

\* run_inner without the `if handle_idx == 0 { continue; }` test
after_wait_no_index_test(handle_idx, flow) ==
    IF flow = "Capture" THEN "cap_size" ELSE "render_padding"

\* Index dispatch of run_inner after the wait returned handle_idx
after_wait(handle_idx, flow) ==
    IF handle_idx = 0 THEN "drain"
    ELSE IF flow = "Capture" THEN "cap_size" ELSE "render_padding"

\* wait_for_handle_signal returns Ok(handle_idx).  Both events are auto-reset:
\* the wait consumes the signal it reports.  When both are signalled the index
\* the OS reports governs, so either may be returned.
wait_for_handle_signal ==
    /\ lpc = "wait"
    /\ \E handle_idx \in {0, 1} :
         /\ IF handle_idx = 0
            THEN wake /\ wake' = FALSE /\ devEvent' = devEvent
            ELSE devEvent /\ devEvent' = FALSE /\ wake' = wake
         /\ lpc' = after_wait(handle_idx, client_flow)
         /\ dev' = <<Entry("Wait", handle_idx, S_OK)>>
    /\ waitsAfterTerm' = IF TermEnqueued /\ waitsAfterTerm < 2
                         THEN waitsAfterTerm + 1 ELSE waitsAfterTerm
    /\ UNCHANGED <<handleVars, queue, rxAlive, wakeClosed, playing, sessionVars,
                   buildVars, thread_panicked, callVars, loopLocals, err,
                   errLog, teardown, drained, playing0, termSeen>>

\* wait_for_handle_signal returns Err: WaitForMultipleObjectsEx = WAIT_FAILED
wait_failed ==
    /\ lpc = "wait"
    /\ dev' = <<Entry("Wait", 0, WAIT_FAILED)>>
    /\ Fail("BackendSpecificError")
    /\ waitsAfterTerm' = IF TermEnqueued /\ waitsAfterTerm < 2
                         THEN waitsAfterTerm + 1 ELSE waitsAfterTerm
    /\ UNCHANGED <<handleVars, queue, rxAlive, wake, wakeClosed, playing,
                   sessionVars, buildVars, thread_panicked, callVars,
                   devEvent, loopLocals, errLog, teardown, drained, playing0,
                   termSeen>>

\* What the loop leaves alone in a step of the data path
DataPathFrameButPanic ==
    UNCHANGED <<handleVars, queue, rxAlive, wake, wakeClosed, playing,
                sessionVars, buildVars, callVars, devEvent, errLog,
                teardown, drained, playing0, waitsAfterTerm, termSeen>>
DataPathFrame ==
    /\ DataPathFrameButPanic
    /\ thread_panicked' = thread_panicked

\* A panic in run_inner (of the subtraction in get_available_frames, of
\* debug_assert!(!buffer.is_null())): the thread unwinds, which drops
\* RunContext as a return does; error_callback is not called
Panic ==
    /\ thread_panicked' = TRUE
    /\ lpc' = "drop_stream"
    /\ err' = err

\* The locals of one iteration (frames_available, buffer_len) go out of scope
\* at `continue` and at `break 'stream_loop`
EndIteration ==
    /\ frames_available' = 0
    /\ buffer_len' = usize_from_u32(0)
    /\ packets' = 0

\* error_callback(err); break 'stream_loop -- from inside the data path
FailDataPath(e) ==
    /\ Fail(e)
    /\ EndIteration

\* ---- Render
\* get_available_frames without the `Ok(0) => continue` arm
render_available_frames_no_zero_arm ==
    /\ lpc = "render_padding"
    /\ \E hresult \in CallResults, padding \in Paddings :
         LET r == get_available_frames(MaxFrames, padding, hresult,
                                       overflow_checks) IN
           /\ (stream_error_from_hresult(hresult) # "Ok" => padding = 0)
           /\ dev' = Append(dev, Entry("GetCurrentPadding", padding, hresult))
           /\ IF r.panic THEN Panic /\ EndIteration
              ELSE /\ thread_panicked' = thread_panicked
                   /\ IF ~r.ok THEN FailDataPath(r.err)
                      ELSE /\ lpc' = "render_getbuffer"
                           /\ err' = err
                           /\ frames_available' = r.n
                           /\ UNCHANGED <<buffer_len, packets>>
    /\ DataPathFrameButPanic

\* get_available_frames(&stream): Ok(0) => continue, Ok(n) => n, Err => error
render_available_frames ==
    /\ lpc = "render_padding"
    /\ \E hresult \in CallResults, padding \in Paddings :
         LET r == get_available_frames(MaxFrames, padding, hresult,
                                       overflow_checks) IN
           \* padding is not read when the call failed
           /\ (stream_error_from_hresult(hresult) # "Ok" => padding = 0)
           /\ dev' = Append(dev, Entry("GetCurrentPadding", padding, hresult))
           /\ IF r.panic THEN Panic /\ EndIteration
              ELSE /\ thread_panicked' = thread_panicked
                   /\ IF ~r.ok THEN FailDataPath(r.err)
                      ELSE IF r.n = 0
                      THEN lpc' = "drain" /\ err' = err /\ EndIteration
                      ELSE /\ lpc' = "render_getbuffer"
                           /\ err' = err
                           /\ frames_available' = r.n
                           /\ UNCHANGED <<buffer_len, packets>>
    /\ DataPathFrameButPanic

\* (*render_client).GetBuffer(frames_available, &mut buffer), then buffer_len
render_get_buffer ==
    /\ lpc = "render_getbuffer"
    /\ \E hresult \in CallResults, buffer_is_null \in BOOLEAN :
         \* buffer is not read when the call failed
         /\ (stream_error_from_hresult(hresult) # "Ok" => ~buffer_is_null)
         /\ dev' = Append(dev, Entry("GetBuffer", frames_available, hresult))
         /\ IF stream_error_from_hresult(hresult) # "Ok"
            THEN /\ FailDataPath(stream_error_from_hresult(hresult))
                 /\ thread_panicked' = thread_panicked
            \* debug_assert!(!buffer.is_null())
            ELSE IF debug_assertions /\ buffer_is_null
            THEN Panic /\ EndIteration
            ELSE /\ lpc' = "render_cb"
                 /\ err' = err
                 /\ thread_panicked' = thread_panicked
                 /\ frames_available' = frames_available
                 /\ packets' = packets
                 /\ buffer_len' = buffer_len_of(frames_available, bytes_per_frame,
                                                sample_format)
    /\ DataPathFrameButPanic

\* render_callback!: data_callback(StreamData::Output { buffer })
render_callback ==
    /\ lpc = "render_cb"
    /\ dev' = Append(dev, CallbackEntry(buffer_len))
    /\ lpc' = "render_release"
    /\ UNCHANGED <<err, loopLocals>>
    /\ DataPathFrame

\* A render dispatch that goes back to the wait after ReleaseBuffer, without
\* draining the commands first
render_release_buffer_rewait ==
    /\ lpc = "render_release"
    /\ \E hresult \in CallResults :
         /\ dev' = Append(dev, Entry("ReleaseBuffer", frames_available, hresult))
         /\ IF stream_error_from_hresult(hresult) # "Ok"
            THEN FailDataPath(stream_error_from_hresult(hresult))
            ELSE lpc' = "wait" /\ err' = err /\ EndIteration
    /\ DataPathFrame

\* ReleaseBuffer whose status is not checked: the loop goes on after a failure
render_release_buffer_unchecked ==
    /\ lpc = "render_release"
    /\ \E hresult \in CallResults :
         /\ dev' = Append(dev, Entry("ReleaseBuffer", frames_available, hresult))
         /\ lpc' = "drain" /\ err' = err /\ EndIteration
    /\ DataPathFrame

\* ReleaseBuffer of the whole buffer instead of the frames acquired
render_release_buffer_whole ==
    /\ lpc = "render_release"
    /\ \E hresult \in CallResults :
         /\ dev' = Append(dev, Entry("ReleaseBuffer", MaxFrames, hresult))
         /\ IF stream_error_from_hresult(hresult) # "Ok"
            THEN FailDataPath(stream_error_from_hresult(hresult))
            ELSE lpc' = "drain" /\ err' = err /\ EndIteration
    /\ DataPathFrame

\* render_callback!: (*render_client).ReleaseBuffer(frames_available, 0)
render_release_buffer ==
    /\ lpc = "render_release"
    /\ \E hresult \in CallResults :
         /\ dev' = Append(dev, Entry("ReleaseBuffer", frames_available, hresult))
         /\ IF stream_error_from_hresult(hresult) # "Ok"
            THEN FailDataPath(stream_error_from_hresult(hresult))
            ELSE lpc' = "drain" /\ err' = err /\ EndIteration
    /\ DataPathFrame

\* ---- Capture
\* (*capture_client).GetNextPacketSize(&mut frames_available)
capture_next_packet_size ==
    /\ lpc = "cap_size"
    /\ \E hresult \in CallResults, size \in 0..MaxFrames :
         /\ (stream_error_from_hresult(hresult) # "Ok" => size = 0)
         \* the device has at most MaxPackets packets pending in one dispatch
         /\ (size > 0 => packets < MaxPackets)
         \* a new packet cycle: dev keeps the wait and starts over
         /\ dev' = <<dev[1], Entry("GetNextPacketSize", size, hresult)>>
         /\ IF stream_error_from_hresult(hresult) # "Ok"
            THEN FailDataPath(stream_error_from_hresult(hresult))
            ELSE IF size = 0
                 THEN lpc' = "drain" /\ err' = err /\ EndIteration
                 ELSE /\ lpc' = "cap_getbuffer"
                      /\ err' = err
                      /\ frames_available' = size
                      /\ buffer_len' = usize_from_u32(0)
                      /\ packets' = packets + 1
    /\ DataPathFrame

\* GetBuffer without the AUDCLNT_S_BUFFER_EMPTY test: the success status
\* falls through to the callback
capture_get_buffer_no_empty_test ==
    /\ lpc = "cap_getbuffer"
    /\ \E hresult \in CaptureGetBufferResults, frames \in 0..MaxFrames,
          buffer_is_null \in BOOLEAN :
         /\ (hresult # S_OK => frames = 0 /\ ~buffer_is_null)
         /\ dev' = Append(dev, Entry("GetBuffer", frames, hresult))
         /\ IF stream_error_from_hresult(hresult) # "Ok"
            THEN /\ FailDataPath(stream_error_from_hresult(hresult))
                 /\ thread_panicked' = thread_panicked
            ELSE IF debug_assertions /\ buffer_is_null
            THEN Panic /\ EndIteration
            ELSE /\ lpc' = "cap_cb"
                 /\ err' = err
                 /\ thread_panicked' = thread_panicked
                 /\ frames_available' = frames
                 /\ packets' = packets
                 /\ buffer_len' = buffer_len_of(frames, bytes_per_frame, sample_format)
    /\ DataPathFrameButPanic

\* (*capture_client).GetBuffer(&mut buffer, &mut frames_available, ...):
\* AUDCLNT_S_BUFFER_EMPTY => continue; Err => error; else buffer_len
capture_get_buffer ==
    /\ lpc = "cap_getbuffer"
    /\ \E hresult \in CaptureGetBufferResults, frames \in 0..MaxFrames,
          buffer_is_null \in BOOLEAN :
         \* without S_OK no packet is handed out: no frames, and the buffer
         \* is not read
         /\ (hresult # S_OK => frames = 0 /\ ~buffer_is_null)
         /\ dev' = Append(dev, Entry("GetBuffer", frames, hresult))
         /\ IF hresult = AUDCLNT_S_BUFFER_EMPTY
            THEN /\ lpc' = "cap_size"
                 /\ err' = err
                 /\ thread_panicked' = thread_panicked
                 /\ frames_available' = frames
                 /\ buffer_len' = usize_from_u32(0)
                 /\ packets' = packets
            ELSE IF stream_error_from_hresult(hresult) # "Ok"
            THEN /\ FailDataPath(stream_error_from_hresult(hresult))
                 /\ thread_panicked' = thread_panicked
            \* debug_assert!(!buffer.is_null())
            ELSE IF debug_assertions /\ buffer_is_null
            THEN Panic /\ EndIteration
            ELSE /\ lpc' = "cap_cb"
                 /\ err' = err
                 /\ thread_panicked' = thread_panicked
                 /\ frames_available' = frames
                 /\ packets' = packets
                 /\ buffer_len' = buffer_len_of(frames, bytes_per_frame, sample_format)
    /\ DataPathFrameButPanic

\* capture_callback!: data_callback(StreamData::Input { buffer })
capture_callback ==
    /\ lpc = "cap_cb"
    /\ dev' = Append(dev, CallbackEntry(buffer_len))
    /\ lpc' = "cap_release"
    /\ UNCHANGED <<err, loopLocals>>
    /\ DataPathFrame

\* capture_callback!: (*capture_client).ReleaseBuffer(frames_available)
capture_release_buffer ==
    /\ lpc = "cap_release"
    /\ \E hresult \in CallResults :
         /\ dev' = Append(dev, Entry("ReleaseBuffer", frames_available, hresult))
         /\ IF stream_error_from_hresult(hresult) # "Ok"
            THEN FailDataPath(stream_error_from_hresult(hresult))
            ELSE /\ lpc' = "cap_size"
                 /\ err' = err
                 /\ frames_available' = 0
                 /\ buffer_len' = usize_from_u32(0)
                 /\ packets' = packets
    /\ DataPathFrame

\* ---- leaving the loop
\* error_callback(err); break 'stream_loop.  err is moved into the callback.
error_callback ==
    /\ lpc = "error_cb"
    /\ errLog' = Append(errLog, err)
    /\ err' = "none"
    /\ dev' = Append(dev, Entry("error_callback", 0, S_OK))
    /\ lpc' = "drop_stream"
    /\ UNCHANGED <<handleVars, queue, rxAlive, wake, wakeClosed, playing,
                   sessionVars, buildVars, thread_panicked, callVars,
                   devEvent, loopLocals, teardown, drained, playing0,
                   waitsAfterTerm, termSeen>>

\* What dropping a part of RunContext leaves alone
DropFrame ==
    UNCHANGED <<handleVars, wake, wakeClosed, playing, sessionVars,
                buildVars, thread_panicked, callVars, devEvent,
                loopLocals, err, errLog, playing0, waitsAfterTerm, termSeen>>

\* Drop for StreamInner that also releases the render/capture client, which
\* Drop for AudioClientFlow then releases again
drop_stream_inner_and_flow ==
    /\ lpc = "drop_stream"
    /\ teardown' = teardown \o <<"client_flow.Release", "audio_client.Release",
                                 "CloseHandle(event)">>
    /\ lpc' = "drop_flow"
    /\ dev' = <<>>
    /\ drained' = <<>>
    /\ UNCHANGED <<rxAlive, queue>>
    /\ DropFrame

\* Drop for StreamInner: (*self.audio_client).Release(); CloseHandle(self.event).
\* The loop is over: the observations of its last iteration are cleared.
drop_stream_inner ==
    /\ lpc = "drop_stream"
    /\ teardown' = teardown \o <<"audio_client.Release", "CloseHandle(event)">>
    /\ lpc' = "drop_flow"
    /\ dev' = <<>>
    /\ drained' = <<>>
    /\ UNCHANGED <<rxAlive, queue>>
    /\ DropFrame

\* Drop for AudioClientFlow (a field of StreamInner, dropped after its drop())
drop_audio_client_flow ==
    /\ lpc = "drop_flow"
    /\ teardown' = Append(teardown, "client_flow.Release")
    /\ lpc' = "drop_rx"
    /\ UNCHANGED <<rxAlive, queue, dev, drained>>
    /\ DropFrame

\* RunContext.commands, the Receiver, is dropped last, and the commands still
\* queued with it; the thread then ends
drop_receiver ==
    /\ lpc = "drop_rx"
    /\ rxAlive' = FALSE
    /\ queue' = <<>>
    /\ lpc' = "done"
    /\ UNCHANGED <<teardown, dev, drained>>
    /\ DropFrame

\* ------------------------------------------------------------ specification
\* Steps of run_inner that the thread takes whenever it is scheduled
LoopStep ==
    \/ process_command
    \/ process_commands_done
    \/ wait_for_handle_signal
    \/ render_available_frames
    \/ render_get_buffer
    \/ render_callback
    \/ render_release_buffer
    \/ capture_next_packet_size
    \/ capture_get_buffer
    \/ capture_callback
    \/ capture_release_buffer
    \/ error_callback
    \/ drop_stream_inner
    \/ drop_audio_client_flow
    \/ drop_receiver

Next ==
    \/ play
    \/ pause
    \/ drop_stream
    \/ push_command_signal
    \/ push_command_signal_failed
    \/ drop_join
    \/ drop_close
    \/ device_ready
    \/ wait_failed
    \/ LoopStep

Spec == Init /\ [][Next]_vars

\* The background thread is scheduled fairly, callbacks return, and a wait on
\* a signalled event returns.  No fairness is assumed of the caller or the device.
LiveSpec == Init /\ [][Next]_vars /\ WF_vars(LoopStep)

\* ------------------------------------------------------------------ claims
\* The step made the loop perform an observed operation (a wait, a native
\* call or a callback): the operation is the last entry of dev'.
OpStep == dev' # dev /\ dev' # <<>>
LastOp == dev'[Len(dev')]
DeviceCallStep == OpStep /\ LastOp.op \in DeviceOps
DataCallbackStep == OpStep /\ LastOp.op = "data_callback"
\* The observed operation e failed
Failed(e) ==
    IF e.op = "Wait" THEN e.hr = WAIT_FAILED
    ELSE e.op \in DeviceOps /\ e.hr < 0
\* run_inner has left 'stream_loop
LoopExited == lpc \in {"drop_stream", "drop_flow", "drop_rx", "done"}

\* C1: once Terminate has been enqueued and pending_scheduled_event signalled
\* for it, the background thread eventually receives Terminate or otherwise
\* leaves the loop, and ends: it does not stay in the wait forever.
C1_TerminateEventuallyExits == TermSignalled ~> (lpc = "done")

\* C1 witness: Terminate was signalled while the loop was blocked in the wait;
\* the wait returned once, the drain received Terminate and the thread ended.
C1_Witness ==
    /\ TermSignalled
    /\ termSeen
    /\ waitsAfterTerm = 1
    /\ lpc = "done"

\* C2 (as claimed): whenever Drop for Stream has run to its end, it has
\* enqueued Terminate, signalled the event, joined the thread and closed the
\* event, once each and in this order; while it runs it has done a prefix.
DropSteps == <<"send", "signal", "join", "close">>
C2_DropPerformsAllSteps ==
    hcmd = "Terminate" =>
        /\ Len(dropLog) <= 4
        /\ dropLog = SubSeq(DropSteps, 1, Len(dropLog))
        /\ (hpc \in {"dropped"} \cup HandlePanics => dropLog = DropSteps)

\* C3 (as claimed): no call of play() or pause() panics
C3_PlayPauseNeverPanic ==
    ~(hpc \in HandlePanics /\ hcmd \in {"PlayStream", "PauseStream"})

\* C4 (as claimed): the wait returns at most once after Terminate is
\* enqueued, and no step taken after the enqueue makes a device call.
C4_NoDeviceCallAfterEnqueue ==
    [][/\ (TermEnqueued => ~DeviceCallStep)
       /\ waitsAfterTerm' <= 1]_vars

\* C4 (amended): the wait returns at most once after Terminate is enqueued,
\* and neither the step in which process_commands receives Terminate nor any
\* later step makes a device call.
C4_NoDeviceCallAfterTerminateSeen ==
    [][/\ (termSeen' => ~DeviceCallStep)
       /\ waitsAfterTerm' <= 1]_vars

\* C4 witness: Terminate was enqueued and signalled while the session was
\* Playing and the loop waited; the wait returned index 0 and the drain
\* received Terminate, with no native call in between.
C4_Witness ==
    /\ TermSignalled
    /\ termSeen
    /\ playing
    /\ waitsAfterTerm = 1
    /\ lpc = "drop_stream"
    /\ dev = <<Entry("Wait", 0, S_OK)>>

\* The Stopped/Playing state machine: the state after cmds, applied in order
RECURSIVE StateAfter(_, _)
StateAfter(cmds, isPlaying) ==
    IF cmds = <<>> THEN isPlaying
    ELSE StateAfter(Tail(cmds), Head(cmds) = "PlayStream")

\* The number of commands of cmds equal to c that change the state
RECURSIVE Transitions(_, _, _)
Transitions(cmds, isPlaying, c) ==
    IF cmds = <<>> THEN 0
    ELSE (IF Head(cmds) = c /\ (Head(cmds) = "PlayStream") # isPlaying THEN 1 ELSE 0)
         + Transitions(Tail(cmds), Head(cmds) = "PlayStream", c)

\* C5: while a drain runs with every Start/Stop succeeding, playing is the
\* state the Stopped/Playing machine reaches from the state the drain began
\* in by the commands received so far, in order, and the drain has issued one
\* Start per Stopped->Playing transition and one Stop per Playing->Stopped
\* transition, none for a command that finds its target state.
C5_DrainAppliesInOrder ==
    lpc = "drain" =>
        /\ playing = StateAfter(drained, playing0)
        /\ CountOps(dev, {"Start"}) = Transitions(drained, playing0, "PlayStream")
        /\ CountOps(dev, {"Stop"}) = Transitions(drained, playing0, "PauseStream")

\* C5 witness: Play then Pause received in one drain that began Stopped: one
\* Start, one Stop, session Stopped.
C5_Witness ==
    /\ lpc = "drain"
    /\ playing0 = FALSE
    /\ drained = <<"PlayStream", "PauseStream">>
    /\ playing = FALSE
    /\ CountOps(dev, {"Start"}) = 1
    /\ CountOps(dev, {"Stop"}) = 1

\* C6: a failed native call or wait puts its translated error on the way to
\* error_callback (DeviceNotAvailable for AUDCLNT_E_DEVICE_INVALIDATED); the
\* next step of the loop delivers it and leaves the loop; error_callback is
\* invoked at most once, exactly once when the loop was left otherwise than by
\* Terminate or by a panic of the thread; after it no wait, native call or
\* callback takes place.
C6_ErrorDeliveredOnce ==
    [][/\ Len(errLog') <= 1
       /\ (OpStep /\ Failed(LastOp) =>
             /\ lpc' = "error_cb"
             /\ err' = IF LastOp.hr = AUDCLNT_E_DEVICE_INVALIDATED
                          /\ LastOp.op # "Wait"
                       THEN "DeviceNotAvailable" ELSE "BackendSpecificError")
       /\ (lpc = "error_cb" /\ lpc' # lpc =>
             /\ errLog' = <<err>>
             /\ lpc' = "drop_stream")
       /\ (errLog # <<>> => ~OpStep)
       /\ (lpc' \in {"drop_stream", "drop_flow", "drop_rx", "done"} =>
             Len(errLog') = IF termSeen' \/ thread_panicked' THEN 0 ELSE 1)]_vars

\* C6 witness: GetBuffer failed with "device invalidated", DeviceNotAvailable
\* was delivered once and the loop was left.
C6_Witness ==
    /\ lpc = "drop_stream"
    /\ errLog = <<"DeviceNotAvailable">>
    /\ Len(dev) >= 2
    /\ dev[Len(dev)].op = "error_callback"
    /\ dev[Len(dev) - 1].op = "GetBuffer"
    /\ dev[Len(dev) - 1].hr = AUDCLNT_E_DEVICE_INVALIDATED

\* A render dispatch is under way or was the last one: dev begins with the
\* wait that returned the device index
RenderDispatch ==
    /\ client_flow = "Render"
    /\ Len(dev) >= 2
    /\ dev[1] = Entry("Wait", 1, S_OK)
\* ... and its GetBuffer succeeded
RenderAcquired ==
    /\ RenderDispatch
    /\ Len(dev) >= 3
    /\ dev[3].op = "GetBuffer"
    /\ dev[3].hr >= 0

\* GetBuffer returned S_OK and no buffer: its pointer was null and
\* debug_assert!(!buffer.is_null()) panicked (a build without debug
\* assertions goes on with the pointer it got)
BufferAssertFailed ==
    /\ thread_panicked
    /\ Len(dev) = 3
    /\ dev[3].op = "GetBuffer"
    /\ dev[3].hr = S_OK

\* N of a render dispatch: max_frames_in_buffer - padding as a u32, when the
\* subtraction gives one
AvailableFrames == u32_sub(MaxFrames, dev[2].n, overflow_checks)

\* C7: in a render dispatch whose GetCurrentPadding succeeded and gave
\* N = max_frames_in_buffer - padding # 0, GetBuffer is the next call and asks
\* for N frames; after a successful GetBuffer that handed out a buffer the
\* next operations are the data callback, once, and ReleaseBuffer of N
\* frames, once, with no command received, no wait and no other call before
\* them.
C7_RenderConservation ==
    RenderDispatch =>
        /\ dev[2].op = "GetCurrentPadding"
        /\ CountOps(dev, {"GetBuffer"}) <= 1
        /\ CountOps(dev, {"data_callback"}) <= 1
        /\ CountOps(dev, {"ReleaseBuffer"}) <= 1
        /\ (dev[2].hr >= 0 /\ ~AvailableFrames.panic /\ AvailableFrames.value # 0 =>
              \/ Len(dev) = 2 /\ lpc = "render_getbuffer"
              \/ Len(dev) >= 3 /\ dev[3].op = "GetBuffer"
                               /\ dev[3].n = AvailableFrames.value)
        /\ (RenderAcquired /\ ~BufferAssertFailed =>
              \/ Len(dev) = 3 /\ lpc = "render_cb" /\ drained = <<>>
              \/ Len(dev) = 4 /\ lpc = "render_release" /\ drained = <<>>
                              /\ dev[4].op = "data_callback"
              \/ Len(dev) >= 5 /\ dev[4].op = "data_callback"
                               /\ dev[5].op = "ReleaseBuffer"
                               /\ dev[5].n = AvailableFrames.value)

\* C7 witness: padding left one frame; one frame was acquired, the callback
\* ran and one frame was released; the loop is back at the drain.
C7_Witness ==
    /\ RenderAcquired
    /\ lpc = "drain"
    /\ Len(dev) = 5
    /\ dev[2] = Entry("GetCurrentPadding", MaxFrames - 1, S_OK)
    /\ dev[3] = Entry("GetBuffer", 1, S_OK)
    /\ dev[5] = Entry("ReleaseBuffer", 1, S_OK)

\* C8 (as claimed): the view handed to the render callback has exactly N
\* elements, N the number of frames acquired.
C8_ViewHasNElements ==
    RenderAcquired /\ lpc = "render_release" => dev[4].len = usize_from_u32(dev[3].n)

\* C8 (amended): the view handed to the render callback covers exactly the N
\* frames acquired: its elements, sample_size bytes each, make up
\* N * bytes_per_frame bytes.
C8_ViewCoversNFrames ==
    RenderAcquired /\ lpc = "render_release" =>
        usize_mul(dev[4].len, sample_size(sample_format))
            = usize_mul(usize_from_u32(dev[3].n), bytes_per_frame)

\* C8 witness: a stereo F32 session (8 bytes per frame), 2 frames acquired:
\* the callback got 4 elements.
C8_Witness ==
    /\ RenderAcquired
    /\ lpc = "render_release"
    /\ sample_format = "F32"
    /\ bytes_per_frame = 8
    /\ dev[3].n = 2
    /\ dev[4] = CallbackEntry(usize_from_u32(4))

\* A capture dispatch is under way or was the last one
CaptureDispatch ==
    /\ client_flow = "Capture"
    /\ Len(dev) >= 2
    /\ dev[1] = Entry("Wait", 1, S_OK)
CapturePcs == {"cap_size", "cap_getbuffer", "cap_cb", "cap_release"}

\* C9: every packet cycle of a capture dispatch begins with GetNextPacketSize.
\* Size zero ends the dispatch with no GetBuffer, callback or release, and the
\* loop returns to the drain only then.  A non-zero size is followed by
\* GetBuffer: "buffer empty" leads straight back to GetNextPacketSize with no
\* callback, release or error; a packet of n frames (n may be 0) handed out
\* with its buffer is followed by the data callback, once, and then
\* ReleaseBuffer(n), once, after which the next cycle begins.
C9_CaptureCycles ==
    CaptureDispatch =>
        /\ dev[2].op = "GetNextPacketSize"
        /\ CountOps(dev, {"GetNextPacketSize"}) = 1
        /\ CountOps(dev, {"GetBuffer"}) <= 1
        /\ CountOps(dev, {"data_callback"}) <= 1
        /\ CountOps(dev, {"ReleaseBuffer"}) <= 1
        /\ (lpc \in {"drain", "wait"} => dev[2].hr >= 0 /\ dev[2].n = 0)
        /\ (dev[2].hr >= 0 /\ dev[2].n = 0 =>
              /\ lpc \notin CapturePcs
              /\ CountOps(dev, {"GetBuffer", "data_callback", "ReleaseBuffer"}) = 0)
        /\ (dev[2].hr >= 0 /\ dev[2].n # 0 =>
              \/ Len(dev) = 2 /\ lpc = "cap_getbuffer"
              \/ Len(dev) >= 3 /\ dev[3].op = "GetBuffer")
        /\ (Len(dev) >= 3 /\ dev[3].op = "GetBuffer"
                         /\ dev[3].hr = AUDCLNT_S_BUFFER_EMPTY =>
              /\ Len(dev) = 3
              /\ lpc = "cap_size"
              /\ err = "none" /\ errLog = <<>>)
        /\ (Len(dev) >= 3 /\ dev[3].op = "GetBuffer" /\ dev[3].hr = S_OK
                         /\ ~BufferAssertFailed =>
              \/ Len(dev) = 3 /\ lpc = "cap_cb"
              \/ Len(dev) = 4 /\ lpc = "cap_release" /\ dev[4].op = "data_callback"
              \/ Len(dev) >= 5 /\ dev[4].op = "data_callback"
                               /\ dev[5].op = "ReleaseBuffer"
                               /\ dev[5].n = dev[3].n
                               /\ (dev[5].hr >= 0 => Len(dev) = 5 /\ lpc = "cap_size"))

\* C9 witness: the second packet of one dispatch has been acquired, handed to
\* the callback and released with the frame count GetBuffer reported, which
\* differs from the size GetNextPacketSize reported.
C9_Witness ==
    /\ CaptureDispatch
    /\ lpc = "cap_size"
    /\ packets = 2
    /\ Len(dev) = 5
    /\ dev[2] = Entry("GetNextPacketSize", 2, S_OK)
    /\ dev[3] = Entry("GetBuffer", 1, S_OK)
    /\ dev[5] = Entry("ReleaseBuffer", 1, S_OK)

\* C10: the audio client, the render/capture client and the readiness event
\* are released or closed at most once each, exactly once each when the thread
\* has ended, and no wait or native call is made once any of them is released.
C10_ReleasedExactlyOnce ==
    [][/\ Occurrences(teardown', "audio_client.Release") <= 1
       /\ Occurrences(teardown', "client_flow.Release") <= 1
       /\ Occurrences(teardown', "CloseHandle(event)") <= 1
       /\ (lpc' = "done" =>
             /\ Occurrences(teardown', "audio_client.Release") = 1
             /\ Occurrences(teardown', "client_flow.Release") = 1
             /\ Occurrences(teardown', "CloseHandle(event)") = 1)
       /\ (OpStep /\ LastOp.op \in DeviceOps \cup {"Wait"} => teardown' = <<>>)]_vars

\* C10 witness: the loop was left after a failed wait and the thread has
\* ended with the three resources released.
C10_Witness ==
    /\ lpc = "done"
    /\ errLog = <<"BackendSpecificError">>
    /\ ~termSeen
    /\ Len(teardown) = 3


\* Every command in the channel has had its SetEvent: the caller is not
\* between send and SetEvent
AllQueuedSignalled == queue # <<>> /\ hpc \notin {"signal", "assert_failed"}

\* C12: no wake-up is lost.  The loop is never blocked in the wait with a
\* signalled command queued and pending_scheduled_event not signalled, so the
\* wait that follows a command's signal returns at once; and every signalled
\* command eventually leaves the channel, received by process_commands (or
\* discarded with the Receiver after Terminate or a fatal error ended the loop).
C12_NoLostWakeup ==
    /\ [](lpc = "wait" /\ AllQueuedSignalled => wake)
    /\ (AllQueuedSignalled ~> queue = <<>>)

\* C12 witness: two commands, signalled one after the other on the auto-reset
\* event, were both received by the drain that followed a single return of the
\* wait with index 0.
C12_Witness ==
    /\ lpc = "drain"
    /\ Len(drained) = 2
    /\ dev # <<>>
    /\ dev[1] = Entry("Wait", 0, S_OK)
    /\ queue = <<>>
    /\ hpc = "idle"
    /\ ~wake


\* C13: playing is false at creation.  It changes only in a step of the drain
\* that calls Start or Stop with success: to true by Start, to false by Stop.
\* Start is called only while playing is false and Stop only while it is true
\* (so successful Start and Stop calls alternate, Start first, and playing
\* tells which came last); a successful call always flips playing; a failed
\* one leaves it unchanged and sends the loop to error_callback.
C13_PlayingStateMachine ==
    /\ ~playing
    /\ [][/\ (playing' # playing =>
                /\ lpc = "drain"
                /\ OpStep
                /\ LastOp = Entry(IF playing' THEN "Start" ELSE "Stop", 0, S_OK))
          /\ (OpStep /\ LastOp.op = "Start" =>
                /\ lpc = "drain" /\ ~playing
                /\ playing' = (LastOp.hr >= 0)
                /\ (LastOp.hr < 0 => lpc' = "error_cb"))
          /\ (OpStep /\ LastOp.op = "Stop" =>
                /\ lpc = "drain" /\ playing
                /\ playing' = ~(LastOp.hr >= 0)
                /\ (LastOp.hr < 0 => lpc' = "error_cb"))]_vars

\* C13 witness: after a successful Start, a Stop failed: playing is still
\* true and the error is on its way to error_callback.
C13_Witness ==
    /\ lpc = "error_cb"
    /\ playing
    /\ dev # <<>>
    /\ dev[Len(dev)] = Entry("Stop", 0, AUDCLNT_E_DEVICE_INVALIDATED)
    /\ err = "DeviceNotAvailable"


\* C14 (as claimed): whenever the readiness event has been closed, the
\* render/capture client was released before it.
C14_FlowReleasedBeforeEventClosed ==
    \A j \in 1..Len(teardown) :
        teardown[j] = "CloseHandle(event)" =>
            \E i \in 1..(j - 1) : teardown[i] = "client_flow.Release"

RenderPcs == {"render_padding", "render_getbuffer", "render_cb", "render_release"}

\* C15: a render dispatch whose GetCurrentPadding reports the buffer full
\* (available frames zero) acquires and releases nothing and calls neither
\* callback; the loop is back at the drain, and all that follows in the
\* iteration is the drain's own Start/Stop (and the error of a failed one).
C15_EmptyRenderCycle ==
    RenderDispatch /\ dev[2] = Entry("GetCurrentPadding", MaxFrames, S_OK) =>
        /\ CountOps(dev, {"GetBuffer", "data_callback", "ReleaseBuffer"}) = 0
        /\ lpc \notin RenderPcs
        /\ (Len(dev) = 2 =>
              /\ lpc = "drain" \/ (lpc = "drop_stream" /\ termSeen)
              /\ err = "none"
              /\ errLog = <<>>)
        /\ \A i \in 3..Len(dev) :
             \/ dev[i].op \in {"Start", "Stop"}
             \/ dev[i].op = "error_callback" /\ dev[i - 1].op \in {"Start", "Stop"}
                                             /\ dev[i - 1].hr < 0

\* C15 witness: the buffer was full; the loop is at the drain with nothing
\* but the wait and GetCurrentPadding behind it.
C15_Witness ==
    /\ client_flow = "Render"
    /\ lpc = "drain"
    /\ dev = <<Entry("Wait", 1, S_OK), Entry("GetCurrentPadding", MaxFrames, S_OK)>>
    /\ errLog = <<>>

\* C16: a wait that returns index 0 leads straight to the drain: the step
\* changes no field of the device session and leaves the readiness event as
\* it is, and the next thing the loop does is a step of process_commands (the
\* only native calls that can follow are the drain's Start/Stop).
C16_WakeupGoesToDrain ==
    [][/\ (OpStep /\ LastOp = Entry("Wait", 0, S_OK) =>
             /\ lpc' = "drain"
             /\ dev' = <<LastOp>>
             /\ UNCHANGED <<playing, sessionVars, devEvent, loopLocals, errLog,
                            teardown>>)
       /\ (dev = <<Entry("Wait", 0, S_OK)>> /\ lpc' # lpc => lpc \in {"drain", "drop_stream"})
       /\ (dev = <<Entry("Wait", 0, S_OK)>> /\ OpStep =>
             lpc = "drain" /\ LastOp.op \in {"Start", "Stop"})]_vars

\* C16 witness: both events were signalled, the wait reported index 0; the
\* loop is at the drain and the readiness event is still signalled.
C16_Witness ==
    /\ lpc = "drain"
    /\ dev = <<Entry("Wait", 0, S_OK)>>
    /\ playing
    /\ devEvent

\* C17: the loop enters the wait only from a drain that found the channel
\* empty, and a dispatch starts only from the wait, so a drain separates any
\* two dispatches; at most one wait returns (hence at most one dispatch
\* starts) after Terminate is enqueued; once process_commands has received
\* Terminate the loop never enters the wait.
C17_CooperativeTerminate ==
    [][/\ (lpc' = "wait" /\ lpc # "wait" => lpc = "drain" /\ queue = <<>>)
       /\ (OpStep /\ LastOp.op = "Wait" => lpc = "wait")
       /\ (lpc' \in {"render_padding", "cap_size"} /\ lpc' # lpc
             /\ lpc \notin CapturePcs =>
             /\ lpc = "wait"
             /\ OpStep /\ LastOp = Entry("Wait", 1, S_OK)
             /\ waitsAfterTerm' <= 1)
       /\ (termSeen => lpc' # "wait")]_vars

\* C17 witness: Terminate was enqueued while the loop waited, the readiness
\* event won the wait, and the one dispatch that may follow has started.
C17_Witness ==
    /\ TermEnqueued
    /\ waitsAfterTerm = 1
    /\ lpc \in {"render_padding", "cap_size"}
    /\ dev = <<Entry("Wait", 1, S_OK)>>
    /\ queue = <<"Terminate">>

\* C18 (as claimed): a buffer is acquired and the data callback invoked only
\* while playing is true.
C18_CallbackOnlyWhilePlaying ==
    lpc \in {"render_cb", "render_release", "cap_cb", "cap_release"} => playing

\* C19: pending_scheduled_event is closed only when the background thread has
\* ended and Drop for Stream is at its last step; once it is closed the
\* caller does nothing more (no SetEvent) and the loop never waits.
C19_WakeEventOutlivesUsers ==
    [][/\ (wakeClosed' => lpc' = "done" /\ hpc' = "dropped")
       /\ (wakeClosed' /\ ~wakeClosed => dropLog = <<"send", "signal", "join">>)
       /\ (wakeClosed => hpc' = hpc /\ wake' = wake)
       /\ (OpStep /\ LastOp.op = "Wait" => ~wakeClosed)
       /\ (hpc = "signal" /\ hpc' # hpc => ~wakeClosed)]_vars

\* C19 witness: the handle was dropped while the loop was running: Terminate
\* sent, event signalled, thread joined after it ended, event closed.
C19_Witness ==
    /\ wakeClosed
    /\ lpc = "done"
    /\ termSeen
    /\ hpc = "dropped"
    /\ dropLog = DropSteps


\* C11: stream_error_from_hresult maps every status to exactly one outcome,
\* fixed by the status alone: every non-negative status (S_OK and
\* AUDCLNT_S_BUFFER_EMPTY among them) to Ok, AUDCLNT_E_DEVICE_INVALIDATED to
\* DeviceNotAvailable, every other negative status to BackendSpecificError;
\* and the call changes nothing of the stream.
C11_ErrorTranslatorTotal ==
    /\ [](ret.fn = "stream_error_from_hresult" =>
            /\ ret.out \in {"Ok", "DeviceNotAvailable", "BackendSpecificError"}
            /\ (ret.out = "Ok") = (call.hresult >= 0)
            /\ (ret.out = "DeviceNotAvailable")
                   = (call.hresult = AUDCLNT_E_DEVICE_INVALIDATED)
            /\ (ret.out = "BackendSpecificError")
                   = (call.hresult < 0 /\ call.hresult # AUDCLNT_E_DEVICE_INVALIDATED)
            /\ (call.hresult \in {S_OK, AUDCLNT_S_BUFFER_EMPTY} => ret.out = "Ok")
            /\ \A c \in Calls :
                  c.hresult = call.hresult =>
                      stream_error_from_hresult(c.hresult) = ret.out)
    /\ [][ret'.fn = "stream_error_from_hresult" => UNCHANGED <<streamVars, call>>]_vars

\* C11 witness: the "buffer empty" success status was translated to Ok.
C11_Witness ==
    /\ call.hresult = AUDCLNT_S_BUFFER_EMPTY
    /\ ret = [fn |-> "stream_error_from_hresult", out |-> "Ok"]

\* C20 (as claimed): get_available_frames never panics on the subtraction
\* and the frame count it returns is at most max_frames_in_buffer, whatever
\* padding GetCurrentPadding reported.
C20_AvailableFramesWithinBuffer ==
    ret.fn = "get_available_frames" =>
        /\ ~ret.out.panic
        /\ (ret.out.ok => u32_le(ret.out.n, call.max_frames_in_buffer))

====
